---- MODULE Spec2Model ----
(***************************************************************************)
(* can_form_triangle(a, b, c) of TestTriangleFunction.py: the type gate,   *)
(* the positivity gate and the triangle-inequality expression, evaluated   *)
(* over Python values (int, bool, float, str, None, list, dict) with       *)
(* Python's arithmetic: exact unbounded ints, binary floating point with   *)
(* round-to-nearest-even, infinities and NaN, and the int -> float         *)
(* conversion of a mixed int/float addition, which raises OverflowError    *)
(* for an int beyond the float range.                                      *)
(*                                                                         *)
(* The float format is a scaled-down binary format: Precision mantissa     *)
(* bits and MaxShift + 1 binades, the lowest with unit spacing.  A finite  *)
(* float is held as the integer m * 2^e it denotes.                        *)
(***************************************************************************)
EXTENDS Integers, Sequences, FiniteSets, TLC

\* ---------------------------------------------------------------- bounds
Precision == 2
MaxShift == 3
MaxInt == 13
NumCallers == 2

\* ------------------------------------------------------ the float format
MantissaLimit == 2 ^ Precision
MaxFinite == (MantissaLimit - 1) * 2 ^ MaxShift

RECURSIVE ShiftOf(_, _)
\* The binade of n >= 0: the least e with n \div 2^e below the mantissa limit.
ShiftOf(n, e) == IF n \div (2 ^ e) < MantissaLimit THEN e ELSE ShiftOf(n, e + 1)

\* n >= 0 rounded to the nearest value m * 2^e, m < MantissaLimit, ties to
\* the even mantissa (the exponent is not yet bounded here).
RoundNearestEven(n) ==
    LET e == ShiftOf(n, 0)
        q == n \div (2 ^ e)
        r == n % (2 ^ e)
    IN  IF 2 * r < 2 ^ e THEN q * 2 ^ e
        ELSE IF 2 * r > 2 ^ e THEN (q + 1) * 2 ^ e
        ELSE IF q % 2 = 0 THEN q * 2 ^ e
        ELSE (q + 1) * 2 ^ e

Representable(n) == RoundNearestEven(n) = n /\ n <= MaxFinite

\* ---------------------------------------------------------- Python values
Val(t, k, v) == [t |-> t, k |-> k, v |-> v]
PyInt(i) == Val("int", "fin", i)
PyBool(i) == Val("bool", "fin", i)
PyFloat(n) == Val("float", "fin", n)
PyInf(s) == Val("float", "inf", s)
PyNaN == Val("float", "nan", 0)
PyTrue == PyBool(1)
PyFalse == PyBool(0)
OverflowError == Val("OverflowError", "fin", 0)

NonNumeric == { Val("str", "fin", 0), Val("NoneType", "fin", 0),
                Val("list", "fin", 0), Val("dict", "fin", 0) }
Bools == { PyTrue, PyFalse }
\* An int beyond the float range (Python's ints are unbounded).
HugeInt == 2 * MaxFinite
Ints == { PyInt(i) : i \in (-1)..MaxInt } \cup { PyInt(HugeInt) }
FiniteFloats == { PyFloat(n) : n \in { m \in 0..MaxFinite : Representable(m) } }
Floats == FiniteFloats \cup { PyFloat(-1), PyInf(1), PyInf(-1), PyNaN }
Values == NonNumeric \cup Bools \cup Ints \cup Floats

IsIntLike(x) == x.t \in {"int", "bool"}
IsFloat(x) == x.t = "float"
IsNaN(x) == IsFloat(x) /\ x.k = "nan"
IsInf(x) == IsFloat(x) /\ x.k = "inf"
IsRaised(x) == x.t = "OverflowError"

\* The exact value of a finite number (True is 1, False is 0).
Exact(x) == x.v

\* type(side) in (int, float): the exact type, which a bool is not.
IsNumericExactType(side) == side.t \in {"int", "float"}

\* isinstance(side, (int, float)); bool is a subclass of int.
IsNumeric(side) == side.t \in {"int", "bool", "float"}

\* x > y on numbers: exact between int and float, False with a NaN.
PyGreater(x, y) ==
    IF IsNaN(x) \/ IsNaN(y) THEN FALSE
    ELSE IF IsInf(x) THEN x.v > 0 /\ ~(IsInf(y) /\ y.v > 0)
    ELSE IF IsInf(y) THEN y.v < 0
    ELSE Exact(x) > Exact(y)

\* float(x) as a mixed addition converts its int operand: correctly rounded,
\* OverflowError when the rounded value exceeds the largest finite float.
ToFloat(x) ==
    IF IsFloat(x) THEN x
    ELSE LET n == Exact(x)
             m == RoundNearestEven(IF n < 0 THEN -n ELSE n)
         IN  IF m > MaxFinite THEN OverflowError
             ELSE PyFloat(IF n < 0 THEN -m ELSE m)

\* float + float: NaN and infinities propagate, a finite sum is rounded and
\* overflows to an infinity.
FloatAdd(x, y) ==
    IF IsNaN(x) \/ IsNaN(y) THEN PyNaN
    ELSE IF IsInf(x) /\ IsInf(y) THEN (IF x.v = y.v THEN x ELSE PyNaN)
    ELSE IF IsInf(x) THEN x
    ELSE IF IsInf(y) THEN y
    ELSE LET s == x.v + y.v
             m == RoundNearestEven(IF s < 0 THEN -s ELSE s)
         IN  IF m > MaxFinite THEN PyInf(IF s < 0 THEN -1 ELSE 1)
             ELSE PyFloat(IF s < 0 THEN -m ELSE m)

\* x + y on numbers: exact on ints (a bool counts as 0 or 1), otherwise the
\* int operand is converted and the floats are added.
PyAdd(x, y) ==
    IF IsIntLike(x) /\ IsIntLike(y) THEN PyInt(x.v + y.v)
    ELSE LET fx == ToFloat(x)
             fy == ToFloat(y)
         IN  IF IsRaised(fx) \/ IsRaised(fy) THEN OverflowError
             ELSE FloatAdd(fx, fy)

\* ------------------------------------------------------ can_form_triangle
\* x >= y on numbers.
PyGreaterOrEqual(x, y) == ~IsNaN(x) /\ ~IsNaN(y) /\ ~PyGreater(y, x)

\* any(...) where the code has all(...).
TypeCheckAny(a, b, c) == \E side \in {a, b, c} : IsNumeric(side)

\* all(isinstance(side, (int, float)) for side in [a, b, c])
TypeCheck(a, b, c) == \A side \in {a, b, c} : IsNumeric(side)

\* side >= 0 where the code has side > 0.
PositiveCheckNonNegative(a, b, c) ==
    \A side \in {a, b, c} : PyGreaterOrEqual(side, PyInt(0))

\* all(side > 0 for side in [a, b, c])
PositiveCheck(a, b, c) == \A side \in {a, b, c} : PyGreater(side, PyInt(0))

\* x + y >= z where the code has x + y > z.
SumAtLeast(x, y, z) ==
    LET s == PyAdd(x, y)
    IN  IF IsRaised(s) THEN "OverflowError"
        ELSE IF PyGreaterOrEqual(s, z) THEN "True" ELSE "False"

\* One conjunct x + y > z of the return expression: what it raises, or its
\* truth value.
SumExceeds(x, y, z) ==
    LET s == PyAdd(x, y)
    IN  IF IsRaised(s) THEN "OverflowError"
        ELSE IF PyGreater(s, z) THEN "True" ELSE "False"

\* The return expression without its last conjunct b + c > a.
TriangleInequalityTwoOnly(a, b, c) ==
    LET first == SumExceeds(a, b, c)
        second == SumExceeds(a, c, b)
    IN  IF first # "True" THEN first ELSE second

\* (a + b > c) and (a + c > b) and (b + c > a), left to right, stopping at
\* the first conjunct that is false or raises.
TriangleInequality(a, b, c) ==
    LET first == SumExceeds(a, b, c)
        second == SumExceeds(a, c, b)
        third == SumExceeds(b, c, a)
    IN  IF first # "True" THEN first
        ELSE IF second # "True" THEN second
        ELSE third

\* The outcome of one call: "TypeError", "ValueError", "OverflowError",
\* "True" or "False".
can_form_triangle(a, b, c) ==
    IF ~TypeCheck(a, b, c) THEN "TypeError"
    ELSE IF ~PositiveCheck(a, b, c) THEN "ValueError"
    ELSE TriangleInequality(a, b, c)

\* ------------------------------------------------------------------ state
\* args[p]: the frame (a, b, c) of caller p's call in progress; pc[p]: where
\* the call stands; outcome[p]: what it returned or raised.
VARIABLES args, pc, outcome
vars == <<args, pc, outcome>>

Callers == 1..NumCallers
NoArgs == <<>>

\* The calls the concurrent callers make: one for each way a call can end.
ConcTriples ==
    { <<PyInt(3), PyInt(4), PyInt(5)>>,
      <<PyInt(1), PyInt(2), PyInt(3)>>,
      <<PyInt(0), Val("str", "fin", 0), PyInt(1)>>,
      <<PyInt(-1), PyInt(2), PyInt(3)>>,
      <<PyInt(HugeInt), PyFloat(1), PyFloat(1)>>,
      <<PyFloat(1), PyFloat(1), PyInt(HugeInt)>> }

Init ==
    /\ args = [p \in Callers |-> NoArgs]
    /\ pc = [p \in Callers |-> "idle"]
    /\ outcome = [p \in Callers |-> "none"]

\* One whole call can_form_triangle(a, b, c) by caller p.
Invoke(p) ==
    /\ pc[p] = "idle"
    /\ \E a \in Values, b \in Values, c \in Values :
        /\ args' = [args EXCEPT ![p] = <<a, b, c>>]
        /\ outcome' = [outcome EXCEPT ![p] = can_form_triangle(a, b, c)]
        /\ pc' = [pc EXCEPT ![p] = "done"]

\* The caller has taken the outcome; the frame is gone.
Return(p) ==
    /\ pc[p] = "done"
    /\ args' = [args EXCEPT ![p] = NoArgs]
    /\ outcome' = [outcome EXCEPT ![p] = "none"]
    /\ pc' = [pc EXCEPT ![p] = "idle"]

Next == Invoke(1) \/ Return(1)

Spec == Init /\ [][Next]_vars

\* ------------------------------------------- the same call, step by step
\* A frame shared by all calls, as module-level storage would be.
SideShared(p, i) == args[CHOOSE q \in Callers : args[q] # NoArgs][i]

\* Parameter i (a, b or c) of caller p's call: a local of its own frame.
Side(p, i) == args[p][i]

\* Caller p enters can_form_triangle with its arguments bound.
Call(p) ==
    /\ pc[p] = "idle"
    /\ \E t \in ConcTriples :
        /\ args' = [args EXCEPT ![p] = t]
        /\ pc' = [pc EXCEPT ![p] = "type_check"]
        /\ UNCHANGED outcome

\* Lines 22-23: the type gate.
CheckTypes(p) ==
    /\ pc[p] = "type_check"
    /\ IF TypeCheck(Side(p, 1), Side(p, 2), Side(p, 3))
       THEN /\ pc' = [pc EXCEPT ![p] = "positive_check"]
            /\ UNCHANGED outcome
       ELSE /\ pc' = [pc EXCEPT ![p] = "done"]
            /\ outcome' = [outcome EXCEPT ![p] = "TypeError"]
    /\ UNCHANGED args

\* Lines 26-27: the positivity gate.
CheckPositive(p) ==
    /\ pc[p] = "positive_check"
    /\ IF PositiveCheck(Side(p, 1), Side(p, 2), Side(p, 3))
       THEN /\ pc' = [pc EXCEPT ![p] = "evaluate"]
            /\ UNCHANGED outcome
       ELSE /\ pc' = [pc EXCEPT ![p] = "done"]
            /\ outcome' = [outcome EXCEPT ![p] = "ValueError"]
    /\ UNCHANGED args

\* Line 30: the return expression.
Evaluate(p) ==
    /\ pc[p] = "evaluate"
    /\ pc' = [pc EXCEPT ![p] = "done"]
    /\ outcome' = [outcome EXCEPT ![p] =
                      TriangleInequality(Side(p, 1), Side(p, 2), Side(p, 3))]
    /\ UNCHANGED args

ConcNext ==
    \E p \in Callers :
        Call(p) \/ CheckTypes(p) \/ CheckPositive(p) \/ Evaluate(p) \/ Return(p)

ConcSpec == Init /\ [][ConcNext]_vars

\* ------------------------------------------------- vocabulary of the claims
\* The call of caller 1 that has just ended, its arguments and its outcome.
Called == pc[1] = "done"
argA == args[1][1]
argB == args[1][2]
argC == args[1][3]
Result == outcome[1]
Returned == Result \in {"True", "False"}

NumericInput(x) == x.t \in {"int", "bool", "float"}
FiniteInput(x) == NumericInput(x) /\ x.k = "fin"
StrictlyPositive(x) == NumericInput(x) /\ x.k \in {"fin", "inf"} /\ x.v > 0
ZeroOrNegative(x) ==
    NumericInput(x) /\ ((x.k = "fin" /\ x.v <= 0) \/ (x.k = "inf" /\ x.v < 0))
AllNumeric == \A x \in {argA, argB, argC} : NumericInput(x)
ValidTriple == Called /\ \A x \in {argA, argB, argC} : StrictlyPositive(x)
FiniteTriple == ValidTriple /\ \A x \in {argA, argB, argC} : FiniteInput(x)

\* x + y > z and x + y == z as Python evaluates them; neither is true when
\* the addition raises.
NativeExceeds(x, y, z) ==
    LET s == PyAdd(x, y) IN ~IsRaised(s) /\ PyGreater(s, z)
NativeEquals(x, y, z) ==
    LET s == PyAdd(x, y)
    IN  /\ ~IsRaised(s)
        /\ ~IsNaN(s) /\ ~IsNaN(z)
        /\ ~PyGreater(s, z) /\ ~PyGreater(z, s)

Max2(m, n) == IF m >= n THEN m ELSE n
LargestSide == Max2(argA.v, Max2(argB.v, argC.v))
Perimeter == argA.v + argB.v + argC.v

\* ------------------------------------------------------------------ claims

\* C1: for every triple of strictly positive numeric inputs the call returns
\* a boolean (it never raises), and returns true if and only if a + b > c,
\* a + c > b and b + c > a all hold in the inputs' native arithmetic.
C1_TrueIffAllThreeInequalities ==
    ValidTriple =>
        /\ Returned
        /\ Result = "True" <=>
              /\ NativeExceeds(argA, argB, argC)
              /\ NativeExceeds(argA, argC, argB)
              /\ NativeExceeds(argB, argC, argA)

\* C2: for every valid triple, each of the six orders of its sides gives the
\* outcome the call gave.
C2_SamePermutedOutcome ==
    ValidTriple =>
        \A o \in Permutations({1, 2, 3}) :
            can_form_triangle(args[1][o[1]], args[1][o[2]], args[1][o[3]]) = Result

\* C3: numeric inputs of which at least one is zero or negative end in
\* ValueError, wherever the offending input stands and whatever the others are.
C3_NonPositiveRaisesValueError ==
    (Called /\ AllNumeric /\ \E x \in {argA, argB, argC} : ZeroOrNegative(x))
        => Result = "ValueError"

C3_Witness ==
    /\ Called
    /\ StrictlyPositive(argA) /\ StrictlyPositive(argB)
    /\ NativeExceeds(argA, argB, argB)
    /\ argC = PyInt(0)
    /\ Result = "ValueError"

\* C4: a call with at least one non-numeric input ends in TypeError, never in
\* ValueError, also when another input, an earlier one included, is numeric
\* and zero or negative.
C4_NonNumericRaisesTypeError ==
    (Called /\ ~AllNumeric) => Result = "TypeError"

C4_Witness ==
    /\ Called
    /\ ZeroOrNegative(argA)
    /\ ~NumericInput(argB)
    /\ Result = "TypeError"

\* C6: every call ends in TypeError, ValueError, true or false, and it ends
\* in a boolean exactly when all three inputs are numeric and strictly
\* positive.
C6_FourOutcomes ==
    Called =>
        /\ Result \in {"TypeError", "ValueError", "True", "False"}
        /\ Returned <=> ValidTriple

\* C10: a bool input is numeric to the type gate: with only int, float and
\* bool inputs the call never ends in TypeError, a False among them ends it
\* in ValueError, and True counts as the side length 1.
IntOf(x) == IF x.t = "bool" THEN PyInt(x.v) ELSE x
C10_BoolIsNumeric ==
    (Called /\ AllNumeric /\ \E x \in {argA, argB, argC} : x.t = "bool") =>
        /\ Result # "TypeError"
        /\ (PyFalse \in {argA, argB, argC}) => Result = "ValueError"
        /\ Result = can_form_triangle(IntOf(argA), IntOf(argB), IntOf(argC))
        /\ (argA = PyTrue /\ argB = PyTrue /\ argC = PyTrue) => Result = "True"

C10_Witness ==
    /\ Called
    /\ argA = PyTrue /\ argB = PyTrue /\ argC = PyTrue
    /\ Result = "True"

\* C5 as stated, among the calls that return: a valid finite triple in which
\* one side equals the exact sum of the other two returns false.
C5_FlatTripleReturnsFalse ==
    (/\ FiniteTriple
     /\ Returned
     /\ \/ argA.v + argB.v = argC.v
        \/ argA.v + argC.v = argB.v
        \/ argB.v + argC.v = argA.v)
        => Result = "False"

\* C5 as amended: a valid triple in which the sum of two sides, as Python
\* computes it, compares equal to the third side returns false.
C5_NativeFlatTripleReturnsFalse ==
    (/\ ValidTriple
     /\ \/ NativeEquals(argA, argB, argC)
        \/ NativeEquals(argA, argC, argB)
        \/ NativeEquals(argB, argC, argA))
        => Result = "False"

C5_Witness ==
    /\ Called
    /\ argA = PyInt(2) /\ argB = PyFloat(3) /\ argC = PyInt(1)
    /\ NativeEquals(argA, argC, argB)
    /\ Result = "False"

\* The inequalities x + y > z of the call that fail in native arithmetic,
\* each named by the position of its right-hand side.
FailingInequalities ==
    { o \in { <<1, 2, 3>>, <<1, 3, 2>>, <<2, 3, 1>> } :
        ~NativeExceeds(args[1][o[1]], args[1][o[2]], args[1][o[3]]) }

\* C9 as stated, among the calls that return: for a valid finite triple at
\* most one inequality fails, and the call returns true exactly when twice
\* the largest side is below the sum of the three.
C9_TrueIffLargestBelowOthers ==
    (FiniteTriple /\ Returned) =>
        /\ Cardinality(FailingInequalities) <= 1
        /\ Result = "True" <=> 2 * LargestSide < Perimeter

\* C9 as amended: for strictly positive int (or bool) sides at most one
\* inequality fails, the one that fails has a largest side on its right, and
\* the call returns true exactly when twice the largest side is below the
\* sum of the three.
C9_IntegerSides ==
    (ValidTriple /\ \A x \in {argA, argB, argC} : IsIntLike(x)) =>
        /\ Returned
        /\ Cardinality(FailingInequalities) <= 1
        /\ \A o \in FailingInequalities : args[1][o[3]].v = LargestSide
        /\ Result = "True" <=> 2 * LargestSide < Perimeter

C9_Witness ==
    /\ Called
    /\ argA = PyInt(5) /\ argB = PyInt(1) /\ argC = PyInt(2)
    /\ FailingInequalities = { <<2, 3, 1>> }
    /\ Result = "False"

\* C8: under every interleaving of the steps of concurrent calls, a call
\* that has ended has the outcome it would have alone on its own inputs.
C8_OutcomeAsIfAlone ==
    \A p \in Callers :
        pc[p] = "done" =>
            outcome[p] = can_form_triangle(args[p][1], args[p][2], args[p][3])

C8_Witness ==
    /\ pc[1] = "done" /\ outcome[1] = "TypeError"
    /\ pc[2] = "evaluate"
    /\ args[1] # args[2]

====
